---- MODULE Spec2Model ----
(***************************************************************************)
(* The data-pipeline workflows of temporal-data-pipeline-demo:             *)
(*   DataPipelineWorkflowHappyPath, DataPipelineWorkflowNonRecoverable-    *)
(*   Failure and the dynamic DataPipelineWorkflowScenarios.                *)
(*                                                                         *)
(* One workflow instance is modelled.  Its run coroutine is cut at its     *)
(* await points: the value of wf.pc names the await the coroutine is       *)
(* suspended at, and one application of <Class>_run(w, ev) is the code     *)
(* executed between the delivery of event ev and the next await.  The      *)
(* commands the code issues on the way (activities scheduled, timers       *)
(* started, search attributes upserted) are appended to trace, the events  *)
(* delivered to the workflow are appended to history.  A failed workflow   *)
(* task is retried by re-running the coroutine of a fresh instance over    *)
(* history (Replay).                                                       *)
(***************************************************************************)
EXTENDS Integers, Sequences, FiniteSets, TLC

VARIABLES workflow_type, request, wf, trace, history, elapsed, queried, retries,
          polling, update_returned

vars == <<workflow_type, request, wf, trace, history, elapsed, queried, retries,
          polling, update_returned>>

----------------------------------------------------------------------------
(* Bounds of the model *)

\* signals and updates delivered to one instance
MaxDeliveries == 2
\* retries of a failed workflow task
MaxRetries == 2
\* seconds the clock advances in one step
TickSeconds == 20
\* attempts of one poll activity
MaxAttempts == 3

----------------------------------------------------------------------------
(* Workflow type names *)

HAPPY == "DataPipelineWorkflowHappyPath"
NONRECOVERABLE == "DataPipelineWorkflowNonRecoverableFailure"
BUG == "DataPipelineRecoverableFailure"
FAILURE == "DataPipelineNonRecoverableFailure"
SIGNAL == "DataPipelineHumanInLoopSignal"
UPDATE == "DataPipelineHumanInLoopUpdate"
VISIBILITY == "DataPipelineAdvancedVisibility"
IDEMPOTENCY == "DataPipelineIdempotency"

\* the names the scenarios class compares workflow_type with
ScenarioNames == {BUG, FAILURE, SIGNAL, UPDATE, VISIBILITY, IDEMPOTENCY}

\* a type name no class is registered under and no scenario compares with
UnrecognizedNames == {"DataPipelineUnheardOf"}

TypeNames == {HAPPY, NONRECOVERABLE} \cup ScenarioNames \cup UnrecognizedNames

\* The class a run of type t is an instance of: a class without dynamic=True
\* is registered under its own name, the dynamic class takes every other name.
WorkflowClass(t) ==
    IF t = HAPPY THEN "DataPipelineWorkflowHappyPath"
    ELSE IF t = NONRECOVERABLE THEN "DataPipelineWorkflowNonRecoverableFailure"
    ELSE "DataPipelineWorkflowScenarios"

----------------------------------------------------------------------------
(* Inputs *)

Filenames == {"a.csv", "b.csv"}
Policies == {"blue", "orange"}
TaskQueues == {"worker-1", "worker-2"}

\* DataPipelineParams, as far as the workflows read it
Requests == [input_filename : Filenames, validation : Policies]

\* the task queue of the workflow's own worker, used when none is given
NoQueue == "default"
NoValue == "none"

\* What the validate activity may answer for a request: "blue" is the value
\* the workflows write to make it reject; any other answer is the activity's.
ValidateAnswers(input) ==
    IF input.validation = "blue" THEN {FALSE} ELSE {TRUE, FALSE}

----------------------------------------------------------------------------
(* Commands and events *)

execute_activity(name, args, queue, stc, hb, retry) ==
    [cmd |-> "execute_activity", activity |-> name, args |-> args,
     task_queue |-> queue, start_to_close_timeout |-> stc,
     heartbeat_timeout |-> hb, retry_policy |-> retry]

\* retry_policy of a call that passes none
DefaultRetry == [initial_interval |-> 0, backoff_coefficient |-> 0]

start_timer(seconds) == [cmd |-> "start_timer", seconds |-> seconds]

upsert_search_attributes(step) == [cmd |-> "upsert_search_attributes", Step |-> step]

Event(type, value) == [type |-> type, value |-> value]

Started == Event("WorkflowExecutionStarted", NoValue)
ActivityCompleted(v) == Event("ActivityTaskCompleted", v)
ActivityFailed == Event("ActivityTaskFailed", NoValue)
TimerFired == Event("TimerFired", NoValue)
Signaled == Event("WorkflowExecutionSignaled", "load_complete_signal")
Updated == Event("WorkflowExecutionUpdateAccepted", "load_complete_update")

----------------------------------------------------------------------------
(* Results of a run *)

NoResult == [status |-> "Running"]

\* return <value>
Completed(value) == [status |-> "Completed", value |-> value]

\* raise ApplicationError(message) from cause: the workflow execution fails
ApplicationError(message, cause) ==
    [status |-> "Failed", type |-> "ApplicationError", message |-> message,
     cause |-> cause]

\* an activity's failure, not caught by run: the workflow execution fails
ActivityError ==
    [status |-> "Failed", type |-> "ActivityError", message |-> "Activity task failed",
     cause |-> NoValue]

\* f"Successfully processed: {input.input_filename}!"
SuccessMessage(input) == <<"Successfully processed: ", input.input_filename, "!">>

----------------------------------------------------------------------------
(* The state of one instance: the fields __init__ sets, the locals of run,  *)
(* the await run is suspended at (pc), the timer it waits for (0: none),    *)
(* the outcome of the execution, and the error of a failed workflow task.   *)

NewInstance(req) ==
    [pc |-> "init",
     load_complete_signal |-> FALSE,
     load_complete_update |-> FALSE,
     progress |-> 0,
     input |-> req,
     unique_worker_task_queue |-> NoValue,
     timer |-> 0,
     result |-> NoResult,
     task_failure |-> NoValue]

\* the awaits at which an activity is in flight
ActivityPcs == {"get_available_task_queue", "validate", "extract", "transform",
                "load", "load_again", "poll"}

Out(w, cmds) == [w |-> w, cmds |-> cmds]

Await(w, pc) == [w EXCEPT !.pc = pc, !.timer = 0]

Close_at_start(w, result) ==
    [w EXCEPT !.pc = "done", !.timer = 0, !.result = result, !.progress = 0]

\* the execution is closed: run returned, or raised a failure of the workflow
Close(w, result) == [w EXCEPT !.pc = "done", !.timer = 0, !.result = result]

RaiseActivityError_caught(w) == Out(w, <<>>)

\* an activity's error reaches run, which catches nothing
RaiseActivityError(w) == Out(Close(w, ActivityError), <<>>)

\* a stage as every class but one calls it: on the discovered queue, 300 s to
\* close, 20 s between heartbeats, no retry policy
Stage(name, w) ==
    execute_activity(name, <<w.input>>, w.unique_worker_task_queue, 300, 20, DefaultRetry)

PollRetry_backs_off == [initial_interval |-> 2, backoff_coefficient |-> 2]

\* the retry policy of poll
PollRetry == [initial_interval |-> 2, backoff_coefficient |-> 1]

----------------------------------------------------------------------------
(* DataPipelineWorkflowHappyPath.run, one operator for each stretch of code *)
(* between two awaits                                                       *)

HappyPath_start(w) ==
    Out(Await(w, "get_available_task_queue"),
        <<execute_activity("get_available_task_queue", <<>>, NoQueue, 10, 0, DefaultRetry)>>)

HappyPath_after_discovery(w, queue) ==
    Out([Await(w, "sleep") EXCEPT !.unique_worker_task_queue = queue,
                                  !.progress = 10, !.timer = 2],
        <<start_timer(2)>>)

HappyPath_after_sleep(w) ==
    Out(Await(w, "validate"),
        <<execute_activity("validate", <<w.input>>, NoQueue, 300, 20, DefaultRetry)>>)

HappyPath_after_validate_at20(w, validation) ==
    IF validation = FALSE
    THEN Out(Close([w EXCEPT !.progress = 20], Completed(<<"invalidated">>)), <<>>)
    ELSE Out([Await(w, "extract") EXCEPT !.progress = 20], <<Stage("extract", w)>>)

HappyPath_after_validate(w, validation) ==
    IF validation = FALSE
    THEN Out(Close(w, Completed(<<"invalidated">>)), <<>>)
    ELSE Out([Await(w, "extract") EXCEPT !.progress = 20], <<Stage("extract", w)>>)

HappyPath_after_extract(w) ==
    Out([Await(w, "transform") EXCEPT !.progress = 40], <<Stage("transform", w)>>)

HappyPath_after_transform(w) ==
    Out([Await(w, "load") EXCEPT !.progress = 60], <<Stage("load", w)>>)

HappyPath_after_load(t, w) ==
    Out([Await(w, "poll") EXCEPT !.progress = 80],
        <<execute_activity("poll", <<w.input, t>>, w.unique_worker_task_queue,
                           3000, 20, PollRetry)>>)

HappyPath_after_poll_at80(w) ==
    Out(Close(w, Completed(SuccessMessage(w.input))), <<>>)

HappyPath_after_poll(w) ==
    Out(Close([w EXCEPT !.progress = 100], Completed(SuccessMessage(w.input))), <<>>)

HappyPath_run(t, w, ev) ==
    CASE w.pc = "init" /\ ev.type = "WorkflowExecutionStarted" -> HappyPath_start(w)
      [] w.pc \in ActivityPcs /\ ev.type = "ActivityTaskFailed" -> RaiseActivityError(w)
      [] w.pc = "get_available_task_queue" /\ ev.type = "ActivityTaskCompleted" ->
            HappyPath_after_discovery(w, ev.value)
      [] w.pc = "sleep" /\ ev.type = "TimerFired" -> HappyPath_after_sleep(w)
      [] w.pc = "validate" /\ ev.type = "ActivityTaskCompleted" ->
            HappyPath_after_validate(w, ev.value)
      [] w.pc = "extract" /\ ev.type = "ActivityTaskCompleted" -> HappyPath_after_extract(w)
      [] w.pc = "transform" /\ ev.type = "ActivityTaskCompleted" -> HappyPath_after_transform(w)
      [] w.pc = "load" /\ ev.type = "ActivityTaskCompleted" -> HappyPath_after_load(t, w)
      [] w.pc = "poll" /\ ev.type = "ActivityTaskCompleted" -> HappyPath_after_poll(w)
      \* the class defines no signal and no update: the event changes nothing
      [] OTHER -> Out(w, <<>>)

----------------------------------------------------------------------------
(* DataPipelineWorkflowNonRecoverableFailure.run *)

NonRecoverableFailure_start(w) ==
    Out(Await(w, "get_available_task_queue"),
        <<execute_activity("get_available_task_queue", <<>>, NoQueue, 10, 0, DefaultRetry)>>)

NonRecoverableFailure_after_discovery(w, queue) ==
    Out([Await(w, "sleep") EXCEPT !.unique_worker_task_queue = queue,
                                  !.progress = 10, !.timer = 2],
        <<start_timer(2)>>)

\* input.validation = "blue", then validate on the discovered queue
NonRecoverableFailure_after_sleep(w) ==
    LET w1 == [w EXCEPT !.input = [w.input EXCEPT !.validation = "blue"]]
    IN  Out(Await(w1, "validate"), <<Stage("validate", w1)>>)

NonRecoverableFailure_after_validate(w, validation) ==
    IF validation = FALSE
    THEN Out(Close(w, ApplicationError("Workflow failed due to validation",
                                       "CustomException: Validation Failed")), <<>>)
    ELSE Out([Await(w, "extract") EXCEPT !.progress = 20], <<Stage("extract", w)>>)

NonRecoverableFailure_after_extract(w) ==
    Out([Await(w, "transform") EXCEPT !.progress = 40], <<Stage("transform", w)>>)

NonRecoverableFailure_after_transform(w) ==
    Out([Await(w, "load") EXCEPT !.progress = 60], <<Stage("load", w)>>)

NonRecoverableFailure_after_load(w) ==
    Out([Await(w, "poll") EXCEPT !.progress = 80],
        <<execute_activity("poll", <<w.input>>, w.unique_worker_task_queue,
                           3000, 20, PollRetry)>>)

NonRecoverableFailure_after_poll(w) ==
    Out(Close([w EXCEPT !.progress = 100], Completed(SuccessMessage(w.input))), <<>>)

NonRecoverableFailure_run(t, w, ev) ==
    CASE w.pc = "init" /\ ev.type = "WorkflowExecutionStarted" -> NonRecoverableFailure_start(w)
      [] w.pc \in ActivityPcs /\ ev.type = "ActivityTaskFailed" -> RaiseActivityError(w)
      [] w.pc = "get_available_task_queue" /\ ev.type = "ActivityTaskCompleted" ->
            NonRecoverableFailure_after_discovery(w, ev.value)
      [] w.pc = "sleep" /\ ev.type = "TimerFired" -> NonRecoverableFailure_after_sleep(w)
      [] w.pc = "validate" /\ ev.type = "ActivityTaskCompleted" ->
            NonRecoverableFailure_after_validate(w, ev.value)
      [] w.pc = "extract" /\ ev.type = "ActivityTaskCompleted" ->
            NonRecoverableFailure_after_extract(w)
      [] w.pc = "transform" /\ ev.type = "ActivityTaskCompleted" ->
            NonRecoverableFailure_after_transform(w)
      [] w.pc = "load" /\ ev.type = "ActivityTaskCompleted" ->
            NonRecoverableFailure_after_load(w)
      [] w.pc = "poll" /\ ev.type = "ActivityTaskCompleted" ->
            NonRecoverableFailure_after_poll(w)
      [] OTHER -> Out(w, <<>>)

----------------------------------------------------------------------------
(* DataPipelineWorkflowScenarios *)

\* if self.VISIBILITY == workflow_type: workflow.upsert_search_attributes(...)
Scenarios_tag(t, step) ==
    IF t = VISIBILITY THEN <<upsert_search_attributes(step)>> ELSE <<>>

Scenarios_complete_resets(t, w) ==
    Out(Close([w EXCEPT !.progress = 10], Completed(SuccessMessage(w.input))),
        Scenarios_tag(t, "complete"))

\* the end of run, after the final wait
Scenarios_complete(t, w) ==
    Out(Close([w EXCEPT !.progress = 100], Completed(SuccessMessage(w.input))),
        Scenarios_tag(t, "complete"))

Scenarios_condition_either(t, w) == w.load_complete_signal \/ w.load_complete_update

\* the lambda run passes to workflow.wait_condition, by type
Scenarios_condition(t, w) ==
    IF t = SIGNAL THEN w.load_complete_signal ELSE w.load_complete_update

Scenarios_final_wait_always_waits(t, w) ==
    LET w80 == [w EXCEPT !.progress = 80]
    IN  IF t \in {SIGNAL, UPDATE}
        THEN Out([Await(w80, "wait_condition") EXCEPT !.timer = 60], <<start_timer(60)>>)
        ELSE Out(Await(w80, "poll"),
                 <<execute_activity("poll", <<w80.input, t>>, w80.unique_worker_task_queue,
                                    3000, 20, PollRetry)>>)

Scenarios_final_wait_gates_others(t, w) ==
    LET w80 == [w EXCEPT !.progress = 80]
    IN  IF t \notin {SIGNAL, UPDATE}
        THEN IF Scenarios_condition(t, w80)
             THEN Scenarios_complete(t, w80)
             ELSE Out([Await(w80, "wait_condition") EXCEPT !.timer = 60], <<start_timer(60)>>)
        ELSE Out(Await(w80, "poll"),
                 <<execute_activity("poll", <<w80.input, t>>, w80.unique_worker_task_queue,
                                    3000, 20, PollRetry)>>)

\* run from "Set progress to 80%" to the final wait: a condition that holds
\* already is not waited for
Scenarios_final_wait(t, w) ==
    LET w80 == [w EXCEPT !.progress = 80]
    IN  IF t \in {SIGNAL, UPDATE}
        THEN IF Scenarios_condition(t, w80)
             THEN Scenarios_complete(t, w80)
             ELSE Out([Await(w80, "wait_condition") EXCEPT !.timer = 60], <<start_timer(60)>>)
        ELSE Out(Await(w80, "poll"),
                 <<execute_activity("poll", <<w80.input, t>>, w80.unique_worker_task_queue,
                                    3000, 20, PollRetry)>>)

\* a handler has run: a coroutine suspended in wait_condition resumes when
\* its condition holds now
Scenarios_wake(t, w) ==
    IF w.pc = "wait_condition" /\ Scenarios_condition(t, w)
    THEN Scenarios_complete(t, w)
    ELSE Out(w, <<>>)

Scenarios_load_complete_signal_sets_both(w) ==
    [w EXCEPT !.load_complete_signal = TRUE, !.load_complete_update = TRUE]

\* @workflow.signal load_complete_signal
Scenarios_load_complete_signal(w) == [w EXCEPT !.load_complete_signal = TRUE]

\* @workflow.update load_complete_update
Scenarios_load_complete_update(w) == [w EXCEPT !.load_complete_update = TRUE]

\* what the update handler returns to its caller
UpdateAck == "Workflow update successful"

Scenarios_start(w) ==
    Out(Await(w, "get_available_task_queue"),
        <<execute_activity("get_available_task_queue", <<>>, NoQueue, 10, 0, DefaultRetry)>>)

Scenarios_after_discovery_at_once(w, queue) ==
    Out([Await(w, "sleep") EXCEPT !.unique_worker_task_queue = queue,
                                  !.progress = 10, !.timer = 2],
        <<start_timer(2),
          execute_activity("validate", <<w.input>>, NoQueue, 300, 20, DefaultRetry)>>)

\* run from the result of the discovery to await asyncio.sleep(2)
Scenarios_after_discovery(w, queue) ==
    Out([Await(w, "sleep") EXCEPT !.unique_worker_task_queue = queue,
                                  !.progress = 10, !.timer = 2],
        <<start_timer(2)>>)

Scenarios_after_sleep_keeps_input(t, w) ==
    Out(Await(w, "validate"),
        Scenarios_tag(t, "validation")
        \o <<execute_activity("validate", <<w.input>>, NoQueue, 300, 20, DefaultRetry)>>)

Scenarios_after_sleep(t, w) ==
    LET w1 == IF t = FAILURE
              THEN [w EXCEPT !.input = [w.input EXCEPT !.validation = "blue"]]
              ELSE w
    IN  Out(Await(w1, "validate"),
            Scenarios_tag(t, "validation")
            \o <<execute_activity("validate", <<w1.input>>, NoQueue, 300, 20, DefaultRetry)>>)

Scenarios_after_validate_goes_on(t, w, validation) ==
    Out([Await(w, "extract") EXCEPT !.progress = 20],
        Scenarios_tag(t, "extract") \o <<Stage("extract", w)>>)

Scenarios_after_validate(t, w, validation) ==
    IF validation = FALSE
    THEN Out(Close(w, ApplicationError("Workflow failed due to validation",
                                       "CustomException: Validation Failed")), <<>>)
    ELSE Out([Await(w, "extract") EXCEPT !.progress = 20],
             Scenarios_tag(t, "extract") \o <<Stage("extract", w)>>)

Scenarios_after_extract_tags_late(t, w) ==
    Out([Await(w, "transform") EXCEPT !.progress = 40],
        <<Stage("transform", w)>> \o Scenarios_tag(t, "transform"))

Scenarios_after_extract(t, w) ==
    Out([Await(w, "transform") EXCEPT !.progress = 40],
        Scenarios_tag(t, "transform") \o <<Stage("transform", w)>>)

Scenarios_after_transform_raises_late(t, w) ==
    IF t = BUG
    THEN Out([Await(w, "task_failed") EXCEPT !.task_failure = "Exception: Workflow bug!",
                                             !.progress = 60], <<>>)
    ELSE Out([Await(w, "load") EXCEPT !.progress = 60],
             Scenarios_tag(t, "load") \o <<Stage("load", w)>>)

Scenarios_after_transform_no_raise(t, w) ==
    Out([Await(w, "load") EXCEPT !.progress = 60],
        Scenarios_tag(t, "load") \o <<Stage("load", w)>>)

\* raise Exception("Workflow bug!") is no failure of the workflow: the
\* workflow task fails, and the host tries it again
Scenarios_after_transform(t, w) ==
    IF t = BUG
    THEN Out([Await(w, "task_failed") EXCEPT !.task_failure = "Exception: Workflow bug!"], <<>>)
    ELSE Out([Await(w, "load") EXCEPT !.progress = 60],
             Scenarios_tag(t, "load") \o <<Stage("load", w)>>)

Scenarios_after_load_once(t, w) == Scenarios_final_wait(t, w)

Scenarios_after_load(t, w) ==
    IF t = IDEMPOTENCY
    THEN Out(Await(w, "load_again"), <<Stage("load", w)>>)
    ELSE Scenarios_final_wait(t, w)

Scenarios_after_load_again(t, w) == Scenarios_final_wait(t, w)

Scenarios_wait_timed_out_returns(t, w) == Scenarios_complete(t, w)

\* except asyncio.TimeoutError: raise ApplicationError(...)
Scenarios_wait_timed_out(t, w) ==
    Out(Close(w, ApplicationError("Load did not complete before timeout", NoValue)), <<>>)

Scenarios_run(t, w, ev) ==
    CASE w.pc = "init" /\ ev.type = "WorkflowExecutionStarted" -> Scenarios_start(w)
      [] w.pc # "done" /\ ev.type = "WorkflowExecutionSignaled" ->
            Scenarios_wake(t, Scenarios_load_complete_signal(w))
      [] w.pc # "done" /\ ev.type = "WorkflowExecutionUpdateAccepted" ->
            Scenarios_wake(t, Scenarios_load_complete_update(w))
      [] w.pc \in ActivityPcs /\ ev.type = "ActivityTaskFailed" -> RaiseActivityError(w)
      [] w.pc = "get_available_task_queue" /\ ev.type = "ActivityTaskCompleted" ->
            Scenarios_after_discovery(w, ev.value)
      [] w.pc = "sleep" /\ ev.type = "TimerFired" -> Scenarios_after_sleep(t, w)
      [] w.pc = "validate" /\ ev.type = "ActivityTaskCompleted" ->
            Scenarios_after_validate(t, w, ev.value)
      [] w.pc = "extract" /\ ev.type = "ActivityTaskCompleted" -> Scenarios_after_extract(t, w)
      [] w.pc = "transform" /\ ev.type = "ActivityTaskCompleted" ->
            Scenarios_after_transform(t, w)
      [] w.pc = "load" /\ ev.type = "ActivityTaskCompleted" -> Scenarios_after_load(t, w)
      [] w.pc = "load_again" /\ ev.type = "ActivityTaskCompleted" ->
            Scenarios_after_load_again(t, w)
      [] w.pc = "wait_condition" /\ ev.type = "TimerFired" -> Scenarios_wait_timed_out(t, w)
      [] w.pc = "poll" /\ ev.type = "ActivityTaskCompleted" -> Scenarios_complete(t, w)
      [] OTHER -> Out(w, <<>>)

----------------------------------------------------------------------------
(* The host: dispatch by class, and replay *)

Run(t, w, ev) ==
    CASE WorkflowClass(t) = "DataPipelineWorkflowHappyPath" -> HappyPath_run(t, w, ev)
      [] WorkflowClass(t) = "DataPipelineWorkflowNonRecoverableFailure" ->
            NonRecoverableFailure_run(t, w, ev)
      [] OTHER -> Scenarios_run(t, w, ev)

RECURSIVE ReplayFrom(_, _, _, _)
ReplayFrom(t, w, cmds, h) ==
    IF h = <<>> THEN Out(w, cmds)
    ELSE LET o == Run(t, w, Head(h))
         IN  ReplayFrom(t, o.w, cmds \o o.cmds, Tail(h))

\* a fresh instance taken through the recorded events
Replay(t, req, h) == ReplayFrom(t, NewInstance(req), <<>>, h)

----------------------------------------------------------------------------
(* The instance and its environment *)

\* the answer to the last progress query, and whether the execution was
\* closed when it was made; value -1: no query yet
NoQuery == [value |-> -1, closed |-> FALSE]

Min(a, b) == IF a < b THEN a ELSE b

Deliveries ==
    Len(SelectSeq(history, LAMBDA e : e.type \in {"WorkflowExecutionSignaled",
                                                  "WorkflowExecutionUpdateAccepted"}))

\* The attempts of the poll activity: the number of the attempt in flight
\* (0: poll was not scheduled), the seconds from the scheduling of poll to
\* the start of this attempt, and those of them spent waiting between attempts.
NotPolling == [attempt |-> 0, started |-> 0, waited |-> 0]

FirstAttempt == [attempt |-> 1, started |-> 0, waited |-> 0]

Init ==
    /\ workflow_type \in TypeNames
    /\ request \in Requests
    /\ wf = NewInstance(request)
    /\ trace = <<>>
    /\ history = <<>>
    /\ elapsed = 0
    /\ queried = NoQuery
    /\ retries = 0
    /\ polling = NotPolling
    /\ update_returned = NoValue

\* The event is recorded and the workflow task it causes runs the coroutine
\* to its next await; the commands of the task are carried out.  elapsed is
\* the time since the last timer was started, up to the timer's duration.
\* The first attempt of a poll starts when it is scheduled; the update
\* handler's return value goes to the caller of the update.
Deliver(ev) ==
    LET o == Run(workflow_type, wf, ev)
    IN  /\ wf' = o.w
        /\ trace' = trace \o o.cmds
        /\ history' = Append(history, ev)
        /\ elapsed' = IF o.w.timer > 0 /\ o.w.pc # wf.pc THEN 0 ELSE elapsed
        /\ polling' = IF o.w.pc = "poll" /\ wf.pc # "poll" THEN FirstAttempt ELSE polling
        /\ update_returned' = IF ev = Updated THEN UpdateAck ELSE update_returned
        /\ UNCHANGED <<workflow_type, request, queried, retries>>

StartRun ==
    /\ wf.pc = "init"
    /\ Deliver(Started)

get_available_task_queue_returns ==
    /\ wf.pc = "get_available_task_queue"
    /\ \E q \in TaskQueues : Deliver(ActivityCompleted(q))

sleep_fires ==
    /\ wf.pc = "sleep"
    /\ elapsed = wf.timer
    /\ Deliver(TimerFired)

validate_returns ==
    /\ wf.pc = "validate"
    /\ \E b \in ValidateAnswers(wf.input) : Deliver(ActivityCompleted(b))

extract_returns ==
    /\ wf.pc = "extract"
    /\ Deliver(ActivityCompleted("extracted"))

transform_returns ==
    /\ wf.pc = "transform"
    /\ Deliver(ActivityCompleted("transformed"))

load_returns ==
    /\ wf.pc \in {"load", "load_again"}
    /\ Deliver(ActivityCompleted("loaded"))

poll_returns ==
    /\ wf.pc = "poll"
    /\ Deliver(ActivityCompleted("polled"))

RECURSIVE Pow(_, _)
Pow(b, n) == IF n = 0 THEN 1 ELSE b * Pow(b, n - 1)

\* the seconds the host waits after the failure of attempt n of a call
\* with this retry policy
RetryInterval(policy, n) == policy.initial_interval * Pow(policy.backoff_coefficient, n - 1)

\* An attempt of poll raises after a second, or is still running when its
\* start_to_close_timeout ends; the policy sets no maximum_attempts, and the
\* host starts the next attempt after the interval of the policy.
poll_attempt_fails ==
    /\ wf.pc = "poll"
    /\ polling.attempt < MaxAttempts
    /\ LET call == trace[Len(trace)]
       IN  \E d \in {1, call.start_to_close_timeout} :
               polling' = [attempt |-> polling.attempt + 1,
                           started |-> polling.started + d
                                       + RetryInterval(call.retry_policy, polling.attempt),
                           waited |-> polling.waited
                                      + RetryInterval(call.retry_policy, polling.attempt)]
    /\ UNCHANGED <<workflow_type, request, wf, trace, history, elapsed, queried, retries,
                   update_returned>>

\* the activity in flight fails for good
activity_fails ==
    /\ wf.pc \in ActivityPcs
    /\ Deliver(ActivityFailed)

wait_condition_times_out ==
    /\ wf.pc = "wait_condition"
    /\ elapsed = wf.timer
    /\ Deliver(TimerFired)

\* time passes while a timer is pending
Tick ==
    /\ wf.timer > 0
    /\ elapsed < wf.timer
    /\ elapsed' = Min(elapsed + TickSeconds, wf.timer)
    /\ UNCHANGED <<workflow_type, request, wf, trace, history, queried, retries,
                   polling, update_returned>>

\* a client signals the open execution
load_complete_signal ==
    /\ wf.pc \notin {"init", "done"}
    /\ Deliveries < MaxDeliveries
    /\ Deliver(Signaled)

\* a client updates the open execution; an update is accepted by a workflow
\* task that succeeds, and only by a class that defines it
load_complete_update ==
    /\ WorkflowClass(workflow_type) = "DataPipelineWorkflowScenarios"
    /\ wf.pc \notin {"init", "done", "task_failed"}
    /\ Deliveries < MaxDeliveries
    /\ Deliver(Updated)

\* @workflow.query progress: answered by an instance whose workflow task
\* does not fail
progress ==
    /\ wf.pc # "task_failed"
    /\ queried' = [value |-> wf.progress, closed |-> wf.pc = "done"]
    /\ UNCHANGED <<workflow_type, request, wf, trace, history, elapsed, retries,
                   polling, update_returned>>

retry_workflow_task_reissues ==
    /\ wf.pc = "task_failed"
    /\ retries < MaxRetries
    /\ wf' = Replay(workflow_type, request, history).w
    /\ trace' = trace \o Replay(workflow_type, request, history).cmds
    /\ retries' = retries + 1
    /\ UNCHANGED <<workflow_type, request, history, elapsed, queried,
                   polling, update_returned>>

\* The failed workflow task is tried again: a fresh instance runs over the
\* recorded events, and the commands it issues on the way are matched with
\* the recorded ones, not carried out again.
retry_workflow_task ==
    /\ wf.pc = "task_failed"
    /\ retries < MaxRetries
    /\ wf' = Replay(workflow_type, request, history).w
    /\ retries' = retries + 1
    /\ UNCHANGED <<workflow_type, request, trace, history, elapsed, queried,
                   polling, update_returned>>

Next ==
    \/ StartRun
    \/ get_available_task_queue_returns
    \/ sleep_fires
    \/ validate_returns
    \/ extract_returns
    \/ transform_returns
    \/ load_returns
    \/ poll_returns
    \/ activity_fails
    \/ wait_condition_times_out
    \/ Tick
    \/ load_complete_signal
    \/ load_complete_update
    \/ progress
    \/ retry_workflow_task

Spec == Init /\ [][Next]_vars

----------------------------------------------------------------------------
(* Sanity *)

TypeOK ==
    /\ workflow_type \in TypeNames
    /\ request \in Requests
    /\ wf.progress \in {0, 10, 20, 40, 60, 80, 100}
    /\ elapsed \in 0..60
    /\ retries \in 0..MaxRetries

\* the instance is what a replay of its history gives
Deterministic ==
    LET o == Replay(workflow_type, request, history)
    IN  o.w = wf /\ o.cmds = trace

----------------------------------------------------------------------------
(* The happy path alone, with a host that keeps delivering: timers fire and *)
(* an activity in flight ends                                               *)

HappyInit == Init /\ workflow_type = HAPPY

HappyAdvance ==
    \/ StartRun
    \/ get_available_task_queue_returns
    \/ Tick
    \/ sleep_fires
    \/ validate_returns
    \/ extract_returns
    \/ transform_returns
    \/ load_returns
    \/ poll_returns

HappyNext ==
    \/ HappyAdvance
    \/ activity_fails
    \/ load_complete_signal
    \/ progress

HappySpec == HappyInit /\ [][HappyNext]_vars /\ WF_vars(HappyAdvance)

----------------------------------------------------------------------------
(* Every variant, with a host that keeps delivering: a timer that was       *)
(* started fires, an activity in flight returns or fails, a wait that was   *)
(* not released times out.  Deliveries from clients and retries of a failed *)
(* workflow task may come or not; the queries, which change nothing of a    *)
(* run, are left out.                                                       *)

LiveAdvance ==
    \/ HappyAdvance
    \/ wait_condition_times_out

LiveNext ==
    \/ LiveAdvance
    \/ activity_fails
    \/ load_complete_signal
    \/ load_complete_update
    \/ retry_workflow_task

LiveSpec == Init /\ [][LiveNext]_vars /\ WF_vars(LiveAdvance)

----------------------------------------------------------------------------
(* The attempts of poll.  To the workflow an activity is one await, however *)
(* many attempts the host makes of it: Spec leaves the attempts out, and    *)
(* this specification follows them, without the queries, which change       *)
(* nothing of a run.                                                        *)

PollNext ==
    \/ StartRun
    \/ get_available_task_queue_returns
    \/ Tick
    \/ sleep_fires
    \/ validate_returns
    \/ extract_returns
    \/ transform_returns
    \/ load_returns
    \/ poll_attempt_fails
    \/ poll_returns
    \/ activity_fails
    \/ wait_condition_times_out
    \/ load_complete_signal
    \/ load_complete_update
    \/ retry_workflow_task

PollSpec == Init /\ [][PollNext]_vars

----------------------------------------------------------------------------
(* What the claims speak of *)

ProgressValues == {0, 10, 20, 40, 60, 80, 100}

\* the results of the activities that completed, in the order run awaited
\* them: discovery, validate, extract, transform, load, ...
ActivityResults == SelectSeq(history, LAMBDA e : e.type = "ActivityTaskCompleted")

ValidateAnswered == Len(ActivityResults) >= 2

ValidateRejected == ValidateAnswered /\ ActivityResults[2].value = FALSE

NoActivityFailed == \A i \in DOMAIN history : history[i].type # "ActivityTaskFailed"

\* the invocations of an activity, in order
Calls(name) ==
    SelectSeq(trace, LAMBDA c : c.cmd = "execute_activity" /\ c.activity = name)

\* a timer of the Human-in-Loop Gate was started
GateEntered == \E i \in DOMAIN trace : trace[i] = start_timer(60)

\* TerminalResult, read off the result of the execution
Invalidated == wf.result = Completed(<<"invalidated">>)

Succeeded == wf.result.status = "Completed" /\ ~Invalidated

Failed == wf.result.status = "Failed"

ValidationFailure ==
    ApplicationError("Workflow failed due to validation", "CustomException: Validation Failed")

ConfirmationTimeout == ApplicationError("Load did not complete before timeout", NoValue)

\* a failure that ended the run: no workflow task is left to try again
FailedForGood == Failed /\ wf.pc = "done" /\ wf.task_failure = NoValue

NonRecoverableTypes == {NONRECOVERABLE, FAILURE}

----------------------------------------------------------------------------
(* C1: in every variant the answer of the progress query is one of          *)
(* 0, 10, 20, 40, 60, 80, 100, and of two successive answers of one         *)
(* instance the later one is never the smaller.                             *)

C1_ProgressQueryMonotone ==
    /\ [](queried.value # -1 => queried.value \in ProgressValues)
    /\ [][queried'.value >= queried.value]_vars

\* a query was answered 80 and the progress has moved on since
C1_Witness == queried.value = 80 /\ wf.progress = 100

(* C2: a run of the happy path ends; when discovery, validate (with true),  *)
(* extract, transform, load and poll all succeeded it ends in the success   *)
(* message that holds the request's filename, with progress 100.            *)

C2_HappySucceeds ==
    (workflow_type = HAPPY) ~>
        (/\ wf.pc = "done"
         /\ (NoActivityFailed /\ ~ValidateRejected) =>
                /\ wf.result = Completed(SuccessMessage(request))
                /\ \E i \in DOMAIN wf.result.value :
                       wf.result.value[i] = request.input_filename
                /\ wf.progress = 100)

\* a happy run succeeded and was queried after its end
C2_Witness ==
    /\ workflow_type = HAPPY
    /\ Succeeded
    /\ queried.closed
    /\ queried.value = 100

(* C3: once validate has returned false the run is over: the happy path     *)
(* returned "invalidated" and raised nothing, every other class failed for  *)
(* good with the validation failure and its cause; extract, transform,      *)
(* load and poll were not invoked and the gate was not entered.             *)

C3_ValidationRejected ==
    ValidateRejected =>
        /\ wf.pc = "done"
        /\ wf.task_failure = NoValue
        /\ IF workflow_type = HAPPY
           THEN Invalidated
           ELSE FailedForGood /\ wf.result = ValidationFailure
        /\ \A name \in {"extract", "transform", "load", "poll"} : Calls(name) = <<>>
        /\ ~GateEntered

\* validate itself rejected the request of a run with a gate
C3_Witness ==
    /\ ValidateRejected
    /\ workflow_type = SIGNAL
    /\ request.validation = "orange"

(* C4, as the spec has it: a run that ended because validate returned     *)
(* false, in the happy path or the non-recoverable failure, has progress   *)
(* 20, and so answers every query after its end.                           *)

C4_FrozenAt20 ==
    (ValidateRejected /\ wf.pc = "done" /\ workflow_type \in {HAPPY} \cup NonRecoverableTypes) =>
        /\ wf.progress = 20
        /\ queried.closed => queried.value = 20

(* C4, amended: such a run has progress 10, the checkpoint set before       *)
(* validate was invoked, and answers 10 to every query after its end.       *)

C4_FrozenAt10 ==
    (ValidateRejected /\ wf.pc = "done" /\ workflow_type \in {HAPPY} \cup NonRecoverableTypes) =>
        /\ wf.progress = 10
        /\ queried.closed => queried.value = 10

\* a non-recoverable failure was queried after its end
C4_Witness ==
    /\ ValidateRejected
    /\ wf.pc = "done"
    /\ workflow_type = NONRECOVERABLE
    /\ queried.closed

(* C5: the non-recoverable failure invokes validate with the request whose  *)
(* validation is overwritten with "blue", whatever the caller gave; it      *)
(* never succeeds, and once validate has answered it has failed for good    *)
(* with the validation failure.  Every other type invokes validate with     *)
(* the caller's request.                                                    *)

C5_RejectingPolicy ==
    /\ \A i \in DOMAIN Calls("validate") :
           Calls("validate")[i].args =
               IF workflow_type \in NonRecoverableTypes
               THEN << [request EXCEPT !.validation = "blue"] >>
               ELSE << request >>
    /\ workflow_type \in NonRecoverableTypes =>
           /\ ~Succeeded
           /\ ValidateAnswered => FailedForGood /\ wf.result = ValidationFailure

\* the caller's policy was not the rejecting one, and the run failed on it
C5_Witness ==
    /\ workflow_type = FAILURE
    /\ request.validation = "orange"
    /\ wf.result = ValidationFailure

(* C6: in the recoverable bug the failure is raised only when transform    *)
(* has succeeded, at progress 40; it fails the workflow task and not the    *)
(* run, which stays open; however often the task is retried, validate,     *)
(* extract and transform are each invoked at most once.                     *)

C6_RecoverableBug ==
    /\ wf.task_failure # NoValue =>
           /\ workflow_type = BUG
           /\ wf.pc = "task_failed"
           /\ wf.result = NoResult
           /\ wf.progress = 40
           /\ Len(ActivityResults) = 4
           /\ ActivityResults[4].value = "transformed"
    /\ workflow_type = BUG =>
           \A name \in {"validate", "extract", "transform"} : Len(Calls(name)) <= 1

\* the failed task was retried more than once
C6_Witness ==
    /\ workflow_type = BUG
    /\ wf.task_failure # NoValue
    /\ retries > 1

(* C7: with a gate (signal or update), a run fails with the confirmation    *)
(* timeout only when the flag of its channel is still false 60 seconds     *)
(* after the gate was entered, it fails for good and stays at progress 80;  *)
(* the gate is never left waiting with the flag true: a confirmation that   *)
(* is there once load has succeeded ends the run in success at 100, and a   *)
(* success needs it.  A closed run changes no more.                         *)

GateTypes == {SIGNAL, UPDATE}

Confirmed ==
    IF workflow_type = SIGNAL THEN wf.load_complete_signal ELSE wf.load_complete_update

C7_GateOutcome ==
    /\ [](workflow_type \in GateTypes =>
            /\ wf.result = ConfirmationTimeout =>
                   /\ FailedForGood
                   /\ wf.progress = 80
                   /\ ~Confirmed
                   /\ elapsed = 60
                   /\ Len(Calls("load")) = 1
            /\ wf.pc = "wait_condition" => ~Confirmed /\ wf.progress = 80
            /\ (Confirmed /\ wf.progress >= 80) => Succeeded /\ wf.progress = 100
            /\ Succeeded => Confirmed)
    /\ [][wf.pc = "done" => wf' = wf]_vars

\* no signal came, and the gate timed out
C7_Witness ==
    /\ workflow_type = SIGNAL
    /\ wf.result = ConfirmationTimeout

(* C8: the idempotency run invokes load at most twice, the second time     *)
(* with the arguments and the queue of the first and after the first has    *)
(* returned; when it succeeds it has invoked load twice, and its result    *)
(* and progress are those of the plain sequence run over the same events    *)
(* less the second load.  Every other type invokes load at most once.       *)

\* h without the event of its n-th completed activity
WithoutResult(h, n) ==
    LET done(i) == Len(SelectSeq(SubSeq(h, 1, i),
                                 LAMBDA e : e.type = "ActivityTaskCompleted"))
        k == CHOOSE i \in DOMAIN h :
                 h[i].type = "ActivityTaskCompleted" /\ done(i) = n
    IN  SubSeq(h, 1, k - 1) \o SubSeq(h, k + 1, Len(h))

C8_LoadTwice ==
    LET loads == Calls("load")
    IN  /\ workflow_type # IDEMPOTENCY => Len(loads) <= 1
        /\ workflow_type = IDEMPOTENCY =>
             /\ Len(loads) <= 2
             /\ Len(loads) = 2 =>
                    /\ loads[1] = loads[2]
                    /\ loads[1].args = << request >>
                    /\ loads[1].task_queue = wf.unique_worker_task_queue
                    /\ Len(ActivityResults) >= 5
                    /\ ActivityResults[5].value = "loaded"
             /\ Succeeded =>
                    /\ Len(loads) = 2
                    /\ wf.progress = 100
                    /\ LET plain == Replay(CHOOSE t \in UnrecognizedNames : TRUE, request,
                                           WithoutResult(history, 6)).w
                       IN  wf.result = plain.result /\ wf.progress = plain.progress

\* an idempotency run succeeded
C8_Witness ==
    /\ workflow_type = IDEMPOTENCY
    /\ Succeeded

(* C9: the Step tags of an advanced-visibility run are a prefix of          *)
(* validation, extract, transform, load, complete, and all five when the    *)
(* run succeeded; each of the first four is published right before the      *)
(* stage of its name is invoked and no such stage is invoked untagged;      *)
(* complete is published only when poll has succeeded.  No other type       *)
(* publishes a tag.                                                         *)

ExpectedTags == <<"validation", "extract", "transform", "load", "complete">>

Tags ==
    LET ups == SelectSeq(trace, LAMBDA c : c.cmd = "upsert_search_attributes")
    IN  [i \in 1..Len(ups) |-> ups[i].Step]

IsPrefix(s, t) == Len(s) <= Len(t) /\ SubSeq(t, 1, Len(s)) = s

StageOfTag(tag) == IF tag = "validation" THEN "validate" ELSE tag

C9_StepTags ==
    /\ workflow_type # VISIBILITY => Tags = <<>>
    /\ workflow_type = VISIBILITY =>
         /\ IsPrefix(Tags, ExpectedTags)
         /\ Succeeded => Tags = ExpectedTags
         /\ \A i \in DOMAIN trace :
                (trace[i].cmd = "upsert_search_attributes" /\ trace[i].Step # "complete") =>
                    /\ i < Len(trace)
                    /\ trace[i + 1].cmd = "execute_activity"
                    /\ trace[i + 1].activity = StageOfTag(trace[i].Step)
         /\ \A i \in DOMAIN trace :
                (/\ trace[i].cmd = "execute_activity"
                 /\ trace[i].activity \in {"validate", "extract", "transform", "load"}) =>
                    /\ i > 1
                    /\ trace[i - 1].cmd = "upsert_search_attributes"
                    /\ StageOfTag(trace[i - 1].Step) = trace[i].activity
         /\ (\E i \in DOMAIN Tags : Tags[i] = "complete") =>
                /\ Succeeded
                /\ Len(ActivityResults) = 6
                /\ ActivityResults[6].value = "polled"

\* all five tags were published
C9_Witness ==
    /\ workflow_type = VISIBILITY
    /\ Tags = ExpectedTags

(* C10, as the spec has it: a run of a type name that is not recognized    *)
(* invokes no activity, neither worker discovery nor a stage, and does not  *)
(* succeed.                                                                 *)

C10_UnrecognizedRejected ==
    workflow_type \in UnrecognizedNames =>
        /\ \A i \in DOMAIN trace : trace[i].cmd # "execute_activity"
        /\ ~Succeeded

(* C10, amended: a type name that is neither the name of a class nor one of *)
(* the scenario names is not rejected; the dynamic class runs it as the     *)
(* plain sequence: worker discovery, validate, extract, transform, load     *)
(* once and poll, without tag, gate or injected failure.  It fails only on  *)
(* a rejected validation or a failed activity, and has succeeded with       *)
(* progress 100 when its six activities have completed.                     *)

PlainSequence == <<"get_available_task_queue", "validate", "extract", "transform", "load", "poll">>

Activities ==
    LET calls == SelectSeq(trace, LAMBDA c : c.cmd = "execute_activity")
    IN  [i \in 1..Len(calls) |-> calls[i].activity]

C10_UnrecognizedRunsPlain ==
    workflow_type \in UnrecognizedNames =>
        /\ IsPrefix(Activities, PlainSequence)
        /\ Tags = <<>>
        /\ ~GateEntered
        /\ wf.task_failure = NoValue
        /\ Failed => wf.result \in {ValidationFailure, ActivityError}
        /\ Len(ActivityResults) = 6 => Succeeded /\ wf.progress = 100
        /\ wf.pc = "init" \/ Activities # <<>>

\* a run of an unrecognized type name succeeded
C10_Witness ==
    /\ workflow_type \in UnrecognizedNames
    /\ Succeeded
    /\ Activities = PlainSequence

(* C11: the execution channel is chosen once, by the one worker discovery,  *)
(* and kept; every invocation of extract, transform, load and poll goes     *)
(* through it, worker discovery and validate are invoked without it.        *)

C11_OneChannel ==
    /\ Len(Calls("get_available_task_queue")) <= 1
    /\ \A i \in DOMAIN trace :
           trace[i].cmd = "execute_activity" =>
               IF trace[i].activity \in {"extract", "transform", "load", "poll"}
               THEN /\ trace[i].task_queue = wf.unique_worker_task_queue
                    /\ trace[i].task_queue \in TaskQueues
               ELSE trace[i].task_queue = NoQueue

(* C12, as the spec has it: the retries of poll are 2 seconds apart and     *)
(* lie within the 3000 seconds of the poll step: no attempt starts once     *)
(* 3000 seconds have passed since poll was scheduled.                       *)

C12_BudgetEnclosesRetries ==
    polling.attempt >= 1 =>
        /\ polling.waited = 2 * (polling.attempt - 1)
        /\ polling.started < 3000

(* C12, amended: poll is invoked with 3000 seconds to close, an initial     *)
(* interval of 2 seconds and a backoff coefficient of 1, and no maximum of  *)
(* attempts; every retry waits 2 seconds.  The 3000 seconds bound each      *)
(* attempt by itself, not the step: an attempt that used them up is         *)
(* retried like any other, so attempt n starts at most (n-1) * 3002         *)
(* seconds after poll was scheduled.  The run stays at progress 80 while    *)
(* poll is retried and reaches 100 only when an attempt has succeeded.      *)

C12_PollRetry ==
    polling.attempt >= 1 =>
        /\ Len(Calls("poll")) = 1
        /\ Calls("poll")[1].start_to_close_timeout = 3000
        /\ Calls("poll")[1].retry_policy = [initial_interval |-> 2, backoff_coefficient |-> 1]
        /\ polling.waited = 2 * (polling.attempt - 1)
        /\ polling.started >= polling.waited + (polling.attempt - 1)
        /\ polling.started <= (polling.attempt - 1) * (3000 + 2)
        /\ wf.pc = "poll" => wf.progress = 80
        /\ wf.progress \in {80, 100}
        /\ wf.progress = 100 <=>
               (/\ Len(ActivityResults) >= 6
                /\ ActivityResults[Len(ActivityResults)].value = "polled")

\* an attempt that started after more than 3000 seconds succeeded
C12_Witness ==
    /\ polling.started > 3000
    /\ polling.attempt = MaxAttempts
    /\ wf.progress = 100

(* C13, as the spec has it: in every variant and at every point of a run a  *)
(* signal sets load_complete_signal and changes nothing else of the         *)
(* instance, an update sets load_complete_update, changes nothing else and  *)
(* returns the acknowledgment; a flag once true stays true.                 *)

C13_HandlersEverywhere ==
    [][/\ history' = Append(history, Signaled) =>
              /\ wf' = [wf EXCEPT !.load_complete_signal = TRUE]
              /\ update_returned' = update_returned
       /\ history' = Append(history, Updated) =>
              /\ wf' = [wf EXCEPT !.load_complete_update = TRUE]
              /\ update_returned' = UpdateAck
       /\ wf.load_complete_signal => wf'.load_complete_signal
       /\ wf.load_complete_update => wf'.load_complete_update]_vars

(* C13, amended: in the variants that DataPipelineWorkflowScenarios runs a  *)
(* signal sets load_complete_signal and an update sets load_complete_update *)
(* and returns the acknowledgment at once, and neither changes anything     *)
(* else, with one exception: the delivery that satisfies the gate the run   *)
(* is waiting at resumes the run in the same step, and the run completes at *)
(* progress 100.  The classes of the Happy and NonRecoverableFailure        *)
(* variants define neither handler: a signal changes nothing and no update  *)
(* is accepted.  A flag once true stays true, and no delivery issues a      *)
(* command.                                                                 *)

C13_HandlerFrame ==
    [][LET handled == WorkflowClass(workflow_type) = "DataPipelineWorkflowScenarios"
           released(t) == workflow_type = t /\ wf.pc = "wait_condition"
           completed(w) == [w EXCEPT !.pc = "done", !.timer = 0, !.progress = 100,
                                     !.result = Completed(SuccessMessage(w.input))]
       IN  /\ history' = Append(history, Signaled) =>
                  /\ trace' = trace
                  /\ update_returned' = update_returned
                  /\ wf' = IF ~handled THEN wf
                           ELSE IF released(SIGNAL)
                                THEN completed([wf EXCEPT !.load_complete_signal = TRUE])
                                ELSE [wf EXCEPT !.load_complete_signal = TRUE]
           /\ history' = Append(history, Updated) =>
                  /\ handled
                  /\ trace' = trace
                  /\ update_returned' = UpdateAck
                  /\ wf' = IF released(UPDATE)
                           THEN completed([wf EXCEPT !.load_complete_update = TRUE])
                           ELSE [wf EXCEPT !.load_complete_update = TRUE]
           /\ wf.load_complete_signal => wf'.load_complete_signal
           /\ wf.load_complete_update => wf'.load_complete_update]_vars

\* both were delivered while extract was in flight: the update has returned
\* and the run has not moved
C13_Witness ==
    /\ wf.pc = "extract"
    /\ wf.progress = 20
    /\ wf.load_complete_signal
    /\ wf.load_complete_update
    /\ update_returned = UpdateAck
    /\ trace[Len(trace)].activity = "extract"

(* C14: a closed run has exactly one of the results Success, Invalidated,   *)
(* Failed, and its progress is 100 exactly when the result is Success; a    *)
(* run that closes otherwise keeps the progress it had.  Once the run is    *)
(* closed nothing changes its result or its progress, and a query answers   *)
(* that progress.                                                           *)

C14_TerminalResult ==
    /\ [](wf.pc = "done" =>
            /\ (Succeeded /\ ~Invalidated /\ ~Failed)
                   \/ (Invalidated /\ ~Succeeded /\ ~Failed)
                   \/ (Failed /\ ~Succeeded /\ ~Invalidated)
            /\ wf.progress = 100 <=> Succeeded
            /\ Invalidated => wf.progress = 10)
    /\ [](wf.pc # "done" => wf.result = NoResult /\ wf.progress # 100)
    /\ [][/\ (wf.pc # "done" /\ wf'.pc = "done" /\ wf'.result.status # "Completed") =>
                 wf'.progress = wf.progress
          /\ wf.pc = "done" =>
                 /\ wf' = wf
                 /\ trace' = trace
                 /\ queried' # queried =>
                        queried' = [value |-> wf.progress, closed |-> TRUE]]_vars

\* a run that failed at 80 was queried after it closed
C14_Witness ==
    /\ wf.pc = "done"
    /\ Failed
    /\ wf.progress = 80
    /\ queried = [value |-> 80, closed |-> TRUE]

(* C15: worker discovery is invoked once, with 10 seconds to close and no   *)
(* retry policy of its own.  When the call fails the run ends Failed with   *)
(* the activity's error: no channel was chosen, no stage was invoked, no    *)
(* timer was started and progress is 0.                                     *)

DiscoveryFailed ==
    /\ ActivityResults = <<>>
    /\ \E i \in DOMAIN history : history[i].type = "ActivityTaskFailed"

Steps ==
    LET cmds == SelectSeq(trace, LAMBDA c : c.cmd # "upsert_search_attributes")
    IN  [i \in 1..Len(cmds) |->
            IF cmds[i].cmd = "execute_activity" THEN cmds[i].activity
            ELSE IF cmds[i].seconds = 2 THEN "sleep" ELSE "gate"]

ExpectedSteps(t) ==
    <<"get_available_task_queue", "sleep", "validate", "extract", "transform", "load">>
    \o (IF t = IDEMPOTENCY THEN <<"load">> ELSE <<>>)
    \o (IF t \in GateTypes THEN <<"gate">> ELSE <<"poll">>)

\* the steps that ended: activities that returned or failed, timers that fired
StepsEnded ==
    Len(SelectSeq(history, LAMBDA e : e.type \in {"ActivityTaskCompleted",
                                                   "ActivityTaskFailed", "TimerFired"}))

C16_StepOrder ==
    /\ IsPrefix(Steps, ExpectedSteps(workflow_type))
    /\ Len(Steps) - StepsEnded \in {0, 1}
    /\ Len(Steps) - StepsEnded = 1 =>
           \/ wf.pc \in ActivityPcs \cup {"sleep", "wait_condition"}
           \/ workflow_type \in GateTypes /\ Succeeded /\ Steps[Len(Steps)] = "gate"
    /\ ~NoActivityFailed => wf.pc = "done" /\ Len(Steps) = StepsEnded
    /\ workflow_type \in GateTypes => Calls("poll") = <<>>
    /\ workflow_type \notin GateTypes => ~GateEntered
    /\ wf.progress = 100 =>
           \/ Steps = ExpectedSteps(workflow_type)
           \/ /\ workflow_type \in GateTypes
              /\ Confirmed
              /\ Steps \o <<"gate">> = ExpectedSteps(workflow_type)

\* load runs for the second time: six steps ended, the seventh is in flight
C16_Witness ==
    /\ workflow_type = IDEMPOTENCY
    /\ wf.pc = "load_again"
    /\ Len(Steps) = 7
    /\ StepsEnded = 6

(* C17, as the spec has it: in every state progress is given by the steps   *)
(* that succeeded: 0 until worker discovery returned, 10 until validate     *)
(* accepted, 20 until extract succeeded, 40 until transform succeeded, 60   *)
(* until load succeeded (both loads in the Idempotency variant), 80 until   *)
(* the final wait succeeded, and 100 after that.                            *)

ValidateAccepted == ValidateAnswered /\ ActivityResults[2].value = TRUE

\* the activities that have succeeded when load is done
LoadsDone == IF workflow_type = IDEMPOTENCY THEN 6 ELSE 5

FinalWaitSucceeded ==
    /\ Len(ActivityResults) >= LoadsDone
    /\ IF workflow_type \in GateTypes
       THEN Confirmed
       ELSE Len(ActivityResults) = LoadsDone + 1

ProgressBySteps ==
    IF Len(ActivityResults) = 0 THEN 0
    ELSE IF ~ValidateAccepted THEN 10
    ELSE IF Len(ActivityResults) = 2 THEN 20
    ELSE IF Len(ActivityResults) = 3 THEN 40
    ELSE IF Len(ActivityResults) < LoadsDone THEN 60
    ELSE IF ~FinalWaitSucceeded THEN 80
    ELSE 100

C17_ProgressBySteps == wf.progress = ProgressBySteps

(* C17, amended: the same, except that in the RecoverableBug variant        *)
(* progress stays 40 after transform has succeeded.                         *)

C17_ProgressByStepsButBug ==
    /\ wf.progress = IF workflow_type = BUG /\ Len(ActivityResults) >= 4
                     THEN 40
                     ELSE ProgressBySteps
    /\ wf.progress >= 20 => ValidateAccepted
    /\ wf.progress = 100 => FinalWaitSucceeded /\ NoActivityFailed

\* transform has succeeded in the RecoverableBug variant, and the workflow
\* task was tried again
C17_Witness ==
    /\ workflow_type = BUG
    /\ Len(ActivityResults) = 4
    /\ retries >= 1
    /\ wf.progress = 40

(* C18: in the HumanSignal variant a signal delivered after the start and   *)
(* before load has returned, and in the HumanUpdate variant an update       *)
(* delivered then, is kept: the run never waits at the gate, it never ends  *)
(* with the confirmation timeout, and when load has returned it has ended   *)
(* in Success at progress 100.                                              *)

\* what the gate of this variant waits for
Confirmation == IF workflow_type = SIGNAL THEN Signaled ELSE Updated

EarlyConfirmation ==
    \E i \in DOMAIN history :
        /\ history[i] = Confirmation
        /\ Len(SelectSeq(SubSeq(history, 1, i),
                         LAMBDA e : e.type = "ActivityTaskCompleted")) < 5

C18_EarlyConfirmationKept ==
    (workflow_type \in GateTypes /\ EarlyConfirmation) =>
        /\ Confirmed
        /\ ~GateEntered
        /\ wf.pc # "wait_condition"
        /\ wf.result # ConfirmationTimeout
        /\ Len(ActivityResults) >= 5 =>
               /\ wf.pc = "done"
               /\ Succeeded
               /\ wf.progress = 100
        /\ Succeeded => Len(ActivityResults) = 5

\* the update came during the 2-second delay, and the run succeeded
C18_Witness ==
    /\ workflow_type = UPDATE
    /\ Len(history) >= 3
    /\ history[3] = Updated
    /\ Succeeded
    /\ wf.progress = 100
    /\ ~wf.load_complete_signal

(* C19: the gate opens to the channel of its variant only: a HumanSignal    *)
(* run that got updates and no signal, and a HumanUpdate run that got       *)
(* signals and no update, does not succeed, and once load has returned it   *)
(* waits at the gate or has failed with the confirmation timeout.  In the   *)
(* variants without a gate the commands issued, the result and the progress *)
(* are those of the same run without its signals and updates.               *)

Unconfirmed == \A i \in DOMAIN history : history[i] # Confirmation

Undisturbed ==
    SelectSeq(history, LAMBDA e : e.type \notin {"WorkflowExecutionSignaled",
                                                 "WorkflowExecutionUpdateAccepted"})

C19_OwnChannelOnly ==
    /\ (workflow_type \in GateTypes /\ Unconfirmed) =>
           /\ ~Confirmed
           /\ ~Succeeded
           /\ wf.progress <= 80
           /\ Len(ActivityResults) >= 5 =>
                  \/ wf.pc = "wait_condition" /\ wf.result = NoResult
                  \/ wf.pc = "done" /\ wf.result = ConfirmationTimeout
    /\ workflow_type \notin GateTypes =>
           LET o == Replay(workflow_type, request, Undisturbed)
           IN  /\ o.cmds = trace
               /\ o.w.result = wf.result
               /\ o.w.progress = wf.progress
               /\ o.w.pc = wf.pc

\* two updates and no signal: the signal gate timed out
C19_Witness ==
    /\ workflow_type = SIGNAL
    /\ wf.load_complete_update
    /\ Len(SelectSeq(history, LAMBDA e : e = Updated)) = 2
    /\ wf.result = ConfirmationTimeout

(* C20: in the RecoverableBug variant the run does not get past the failure *)
(* raised after transform: progress is at most 40, load and poll are not    *)
(* invoked and the gate is not entered, the run never succeeds, and once    *)
(* transform has returned the run has no result, however often the workflow *)
(* task is tried again.  In every other variant, when the host keeps        *)
(* delivering, the run is eventually closed.                                *)

C20_BugNeverPasses ==
    /\ [](workflow_type = BUG =>
            /\ wf.progress <= 40
            /\ Calls("load") = <<>>
            /\ Calls("poll") = <<>>
            /\ ~GateEntered
            /\ ~Succeeded
            /\ Len(ActivityResults) >= 4 =>
                   /\ wf.pc = "task_failed"
                   /\ wf.result = NoResult
                   /\ wf.progress = 40
                   /\ Len(ActivityResults) = 4)
    /\ (workflow_type # BUG) ~> (wf.pc = "done" /\ (Succeeded \/ Invalidated \/ Failed))

\* the workflow task was tried again as often as the bound allows
C20_Witness ==
    /\ workflow_type = BUG
    /\ retries = MaxRetries
    /\ wf.pc = "task_failed"
    /\ wf.result = NoResult
    /\ Len(Calls("transform")) = 1

====
